---- MODULE Spec2Model ----
(***************************************************************************)
(* Model of the helios-connect backend: the POST /api/calculate handler    *)
(* (app/main.py) and the calculation pipeline it calls                     *)
(* (app/pv_system_calculations.py).                                        *)
(*                                                                         *)
(* Numbers.  The code computes with Python/numpy floats.  The model        *)
(* computes with exact rationals <<numerator, denominator>> in lowest      *)
(* terms, with +inf, -inf and NaN beside them.  Binary representation    *)
(* error of the floats is not modelled.  round(x, 2) is modelled as        *)
(* rounding the exact value to hundredths, ties to even.                   *)
(*                                                                         *)
(* Time.  A timestamp is the number of 15-minute steps since               *)
(* 2023-01-01 00:00 UTC.  The model year is scaled down: the demand index  *)
(* has NumSlots timestamps (35040 in the code) and a month has             *)
(* HoursPerMonth hours.                                                    *)
(***************************************************************************)
EXTENDS Integers, Sequences, FiniteSets, TLC

\* ------------------------------------------------------------------ bounds
NumSlots == 5
MaxProd == 2
MaxDemand == 2
HoursPerMonth == 1

\* ------------------------------------------------------- program constants
\* freq='15T' against hourly production: four demand timestamps per hour
SlotsPerHour == 4
\* resample('M') over one calendar year
MonthsPerYear == 12

\* the requests in flight: the server runs each in a thread of its pool
Requests == {1, 2}

\* ------------------------------------------------------ float arithmetic
Abs(x) == IF x < 0 THEN 0 - x ELSE x

RECURSIVE Gcd(_, _)
Gcd(a, b) == IF b = 0 THEN a ELSE Gcd(b, a % b)

\* a float is <<n, d>>: the number n/d in lowest terms when d > 0, and when
\* d = 0 one of +inf (<<1, 0>>), -inf (<<-1, 0>>) and NaN (<<0, 0>>)
NaN == <<0, 0>>

IsNaN(x) == x = NaN

IsInf(x) == x[2] = 0 /\ x[1] # 0

Sign(n) == IF n > 0 THEN 1 ELSE IF n < 0 THEN 0 - 1 ELSE 0

\* the float n/d, d >= 0, in lowest terms
Rat(n, d) ==
    IF d = 0 THEN <<Sign(n), 0>>
    ELSE LET g == Gcd(Abs(n), d) IN <<n \div g, d \div g>>

\* inf + (-inf) is NaN; an infinity absorbs any number
RatAdd(a, b) ==
    IF IsNaN(a) \/ IsNaN(b) THEN NaN
    ELSE IF IsInf(a) THEN (IF IsInf(b) /\ a # b THEN NaN ELSE a)
    ELSE IF IsInf(b) THEN b
    ELSE Rat(a[1] * b[2] + b[1] * a[2], a[2] * b[2])

RatSub(a, b) == RatAdd(a, <<0 - b[1], b[2]>>)

\* inf * 0 is NaN
RatMul(a, b) ==
    IF IsNaN(a) \/ IsNaN(b) THEN NaN
    ELSE Rat(a[1] * b[1], a[2] * b[2])

\* a / b as numpy divides float64: no exception; x / 0 is +inf or -inf by the
\* sign of x, 0 / 0 and inf / inf are NaN, x / inf is 0
RatDiv(a, b) ==
    IF IsNaN(a) \/ IsNaN(b) THEN NaN
    ELSE IF IsInf(b) THEN (IF IsInf(a) THEN NaN ELSE <<0, 1>>)
    ELSE IF b[1] = 0 THEN <<Sign(a[1]), 0>>
    ELSE IF b[1] > 0 THEN Rat(a[1] * b[2], a[2] * b[1])
    ELSE Rat(0 - a[1] * b[2], 0 - a[2] * b[1])

\* a <= b, neither NaN
RatLe(a, b) ==
    IF IsInf(a) /\ IsInf(b) THEN a[1] <= b[1]
    ELSE a[1] * b[2] <= b[1] * a[2]

\* round(x, 2): the nearest multiple of 0.01, ties to even; inf and NaN stay
Round2(x) ==
    IF x[2] = 0 THEN x
    ELSE LET n == 100 * x[1]
             q == n \div x[2]
             r == n - q * x[2]
         IN  IF 2 * r < x[2] THEN Rat(q, 100)
             ELSE IF 2 * r > x[2] THEN Rat(q + 1, 100)
             ELSE IF q % 2 = 0 THEN Rat(q, 100) ELSE Rat(q + 1, 100)

\* Series.sum(): NaN entries are skipped
RECURSIVE SeriesSum(_, _)
SeriesSum(f, S) ==
    IF S = {} THEN <<0, 1>>
    ELSE LET s == CHOOSE u \in S : TRUE
             rest == SeriesSum(f, S \ {s})
         IN  IF IsNaN(f[s]) THEN rest ELSE RatAdd(f[s], rest)

SetMax(S) == CHOOSE u \in S : \A v \in S : v <= u

SetMin(S) == CHOOSE u \in S : \A v \in S : u <= v

\* ------------------------------------------------------------- calendar
\* the demand index: pd.date_range('2023-01-01 00:00', '2023-12-31 23:45', freq='15T')
DateRange == 0..(NumSlots - 1)

\* the timestamps of the hourly weather rows that fall in a set of timestamps
Hourly(S) == {s \in S : s % SlotsPerHour = 0}

\* a full calendar year of timestamps
YearStamps == 0..(MonthsPerYear * HoursPerMonth * SlotsPerHour - 1)

\* calendar month (1..12) of a timestamp
MonthOf(s) == (s \div (SlotsPerHour * HoursPerMonth)) + 1

\* ------------------------------------------------- create_pv_system
\* the float annual_el_demand of the request body, in kWh
Demands == {0 - 1} \cup (0..MaxDemand)

\* mutant: one class object shared by every call (a module-level class)
SharedClassRef(heap) == 1

\* the class statement in the function body runs on every call: each call
\* makes a class object of its own (a reference into the heap of classes)
NewClassRef(heap) == Len(heap) + 1

\* pv_system.size = annual_el_demand / 1000, set on the class object
create_pv_system(annual_el_demand) ==
    [size |-> RatDiv(Rat(annual_el_demand, 1), Rat(1000, 1))]

\* ------------------------------------- calculate_hourly_el_production
\* mutant: the bin of the last month is lost
ResampleWithoutLastBin(series) ==
    LET idx == DOMAIN series
    IN  [m \in MonthOf(SetMin(idx))..(MonthOf(SetMax(idx)) - 1) |->
            Round2(SeriesSum(series, {s \in idx : MonthOf(s) = m}))]

\* resample('M').sum().round(2): one bin per calendar month from the month
\* of the first row to the month of the last, empty bins summing to 0
MonthlyResample(series) ==
    LET idx == DOMAIN series
    IN  [m \in MonthOf(SetMin(idx))..MonthOf(SetMax(idx)) |->
            Round2(SeriesSum(series, {s \in idx : MonthOf(s) = m}))]

\* ac is the hourly AC output the simulation returns (mc.results.ac)
calculate_hourly_el_production(ac) ==
    [annual_el_production |-> Round2(SeriesSum(ac, DOMAIN ac)),
     el_production_timeseries |-> ac,
     monthly_el_production |-> MonthlyResample(ac)]

\* ------------------------------------- estimate_hourly_el_consumption
\* a cell of the column 'H00 [kWh]' is its text, a sequence of characters;
\* an empty field is read as a missing value
Missing == <<>>

\* df.dropna(): rows with a missing value are removed
Dropna(rows) == SelectSeq(rows, LAMBDA c : c # Missing)

\* .str.replace(',', '.')
StrReplace(chars, old, new) ==
    [i \in 1..Len(chars) |-> IF chars[i] = old THEN new ELSE chars[i]]

DigitVal(c) ==
    CASE c = "0" -> 0 [] c = "1" -> 1 [] c = "2" -> 2 [] c = "3" -> 3
      [] c = "4" -> 4 [] c = "5" -> 5 [] c = "6" -> 6 [] c = "7" -> 7
      [] c = "8" -> 8 [] c = "9" -> 9

RECURSIVE DigitsVal(_)
DigitsVal(chars) ==
    IF chars = <<>> THEN 0
    ELSE 10 * DigitsVal(SubSeq(chars, 1, Len(chars) - 1)) + DigitVal(chars[Len(chars)])

RECURSIVE Pow10(_)
Pow10(k) == IF k = 0 THEN 1 ELSE 10 * Pow10(k - 1)

\* .astype(float) of an unsigned decimal text
ToFloat(chars) ==
    LET dots == {i \in 1..Len(chars) : chars[i] = "."}
    IN  IF dots = {} THEN Rat(DigitsVal(chars), 1)
        ELSE LET d == SetMin(dots)
                 frac == SubSeq(chars, d + 1, Len(chars))
             IN  Rat(DigitsVal(SubSeq(chars, 1, d - 1)) * Pow10(Len(frac)) + DigitsVal(frac),
                     Pow10(Len(frac)))

\* df.index = pd.date_range(...): the rows take the index by position, which
\* raises ValueError unless there are as many rows as timestamps
IndexFits(rows) == Len(rows) = Cardinality(DateRange)

\* the column 'H00 [kWh]' as floats, on the new index
H00(rows) == [s \in DateRange |-> ToFloat(StrReplace(rows[s + 1], ",", "."))]

\* mutant: scaled by the mean of the profile (.mean() for .sum())
ScalingByMean(annual_el_demand, st_total_annual_consumption) ==
    RatDiv(Rat(annual_el_demand, 1),
           RatDiv(st_total_annual_consumption, Rat(Cardinality(DateRange), 1)))

\* scaling_factor = house.annual_el_demand / st_total_annual_consumption
ScalingFactor(annual_el_demand, st_total_annual_consumption) ==
    RatDiv(Rat(annual_el_demand, 1), st_total_annual_consumption)

\* the column 'H00 recalculated [kWh]'; defined when IndexFits(Dropna(file))
estimate_hourly_el_consumption(annual_el_demand, file) ==
    LET col == H00(Dropna(file))
        scaling_factor == ScalingFactor(annual_el_demand, SeriesSum(col, DateRange))
    IN  [s \in DateRange |-> RatMul(col[s], scaling_factor)]

\* --------------------------------------------- calculate_cost_savings
\* pd.merge(demand, production, how='left', left_index=True, right_index=True):
\* the demand's index is kept, a timestamp without a production row gets NaN
Merge(demand, production) ==
    [s \in DOMAIN demand |->
        [H00 |-> demand[s],
         el_production |-> IF s \in DOMAIN production THEN production[s] ELSE NaN]]

\* mutant: fillna(method='bfill'), a NaN takes the next value after it, if any
Bfill(col) ==
    [s \in DOMAIN col |->
        IF ~IsNaN(col[s]) THEN col[s]
        ELSE LET after == {u \in DOMAIN col : u > s /\ ~IsNaN(col[u])}
             IN  IF after = {} THEN NaN ELSE col[SetMin(after)]]

\* fillna(method='ffill'): a NaN takes the last value before it, if any
Ffill(col) ==
    [s \in DOMAIN col |->
        IF ~IsNaN(col[s]) THEN col[s]
        ELSE LET before == {u \in DOMAIN col : u < s /\ ~IsNaN(col[u])}
             IN  IF before = {} THEN NaN ELSE col[SetMax(before)]]

\* el_production * 0.25: power (kW) over a quarter hour as energy (kWh)
QuarterHourEnergy(power) == RatMul(power, Rat(25, 100))

\* DataFrame.min(axis=1): the smaller of the two, NaN skipped
RowMin(a, b) ==
    IF IsNaN(a) THEN b
    ELSE IF IsNaN(b) THEN a
    ELSE IF RatLe(a, b) THEN a ELSE b

\* mutant: no clip
NoClip(x) == x

\* mutant: abs() for clip(lower=0)
AbsForClip(x) == <<Abs(x[1]), x[2]>>

\* Series.clip(lower=0)
ClipLower0(x) == IF IsNaN(x) THEN NaN ELSE IF RatLe(x, <<0, 1>>) THEN <<0, 1>> ELSE x

electricity_price == Rat(27, 100)

feed_in_tariff == Rat(803, 10000)

\* the frame production_and_consumption after line 220
Frame(el_production_timeseries, el_demand_timeseries) ==
    LET merged == Merge(el_demand_timeseries, el_production_timeseries)
        \* line 203 fills every column of the merged frame
        demand == Ffill([s \in DOMAIN merged |-> merged[s].H00])
        filled == Ffill([s \in DOMAIN merged |-> merged[s].el_production])
    IN  [s \in DOMAIN merged |->
            LET kWh == QuarterHourEnergy(filled[s])
                m == RowMin(demand[s], kWh)
            IN  [H00 |-> demand[s],
                 el_production_kWh |-> kWh,
                 min_prod_cons |-> m,
                 saved_costs |-> RatMul(m, electricity_price)]]

\* mutant: demand minus production
SurplusOfDemand(frame) ==
    [s \in DOMAIN frame |-> ClipLower0(RatSub(frame[s].H00, frame[s].el_production_kWh))]

\* production_surplus, line 226
Surplus(frame) ==
    [s \in DOMAIN frame |-> ClipLower0(RatSub(frame[s].el_production_kWh, frame[s].H00))]

calculate_cost_savings(el_production_timeseries, el_demand_timeseries) ==
    LET frame == Frame(el_production_timeseries, el_demand_timeseries)
        surplus == Surplus(frame)
    IN  [production_and_consumption |-> frame,
         production_surplus |-> surplus,
         cost_savings_GGV |->
            Round2(SeriesSum([s \in DOMAIN frame |-> frame[s].saved_costs], DOMAIN frame)),
         profit_grid_feed_in |->
            Round2(RatMul(SeriesSum(surplus, DOMAIN surplus), feed_in_tariff))]

\* ------------------------------------------- the module's attributes
\* the functions pv_system_calculations.py defines
PvCalcAttrs ==
    {"create_pv_system", "calculate_hourly_el_production",
     "estimate_hourly_el_consumption", "calculate_cost_savings",
     "calculate_CO2_reduction"}

\* ------------------------------------------------------------------ state
VARIABLES
    profile_file,               \* data/GGV_SLP_1000_MWh_2021_01-2020-09-24.csv: the rows' H00 cells
    ac_output,                  \* per request: the AC series the simulation returns for it
    house,                      \* per request: the request body
    pc,                         \* per request: the handler's next statement
    classes,                    \* the class objects create_pv_system has made
    pv_system,                  \* per request: the handler's local pv_system (a reference)
    pdc0,                       \* per request: pv_system.size as read for the array and inverter
    annual_el_production,       \* per request: handler local
    el_production_timeseries,   \* per request: handler local
    monthly_el_production,      \* per request: handler local
    el_demand_timeseries,       \* per request: handler local
    production_and_consumption, \* per request: the frame of calculate_cost_savings
    production_surplus,         \* per request: the series of line 226
    cost_savings_GGV,           \* per request: handler local
    profit_grid_feed_in,        \* per request: handler local
    error                       \* per request: the exception that ended the handler

vars ==
    <<profile_file, ac_output, house, pc, classes, pv_system, pdc0,
      annual_el_production, el_production_timeseries, monthly_el_production,
      el_demand_timeseries, production_and_consumption, production_surplus,
      cost_savings_GGV, profit_grid_feed_in, error>>

inputs == <<profile_file, ac_output, house>>

production_locals ==
    <<pdc0, annual_el_production, el_production_timeseries, monthly_el_production>>

cost_locals ==
    <<production_and_consumption, production_surplus, cost_savings_GGV, profit_grid_feed_in>>

\* ---------------------------------------------------------------- inputs
\* the texts of the H00 cells: 0,5 and 1,0 kWh
Cells == {<<"0", ",", "5">>, <<"1", ",", "0">>}

Profiles(n) == [1..n -> Cells]

WithMissing(n) == {[f EXCEPT ![i] = Missing] : f \in Profiles(n), i \in 1..n}

\* reference files of NumSlots or NumSlots + 1 rows, at most one row with a missing value
Files ==
    Profiles(NumSlots) \cup WithMissing(NumSlots)
        \cup Profiles(NumSlots + 1) \cup WithMissing(NumSlots + 1)

\* complete reference files that repeat one of two daily shapes
ShapedFiles ==
    {[i \in 1..NumSlots |-> IF i % 2 = k THEN <<"0", ",", "5">> ELSE <<"1", ",", "0">>] :
        k \in 0..1}

\* hourly AC power in kW
Powers == {Rat(p, 1) : p \in 0..MaxProd}

\* hourly AC power of a small system: 0.004 and 0.009 kW
SmallPowers == {Rat(4, 1000), Rat(9, 1000)}

\* a full year of hourly output, constant within each month
YearOutputs ==
    {[s \in Hourly(YearStamps) |-> byMonth[MonthOf(s)]] :
        byMonth \in [1..MonthsPerYear -> SmallPowers]}

\* hourly output that is the same in every hour
SteadyOutputs == {[s \in Hourly(DateRange) |-> p] : p \in Powers}

Zero == <<0, 1>>

Unset == <<>>

InitLocals(active) ==
    /\ pc = [r \in Requests |-> IF r \in active THEN "create" ELSE "absent"]
    /\ classes = <<>>
    /\ pv_system = [r \in Requests |-> 0]
    /\ pdc0 = [r \in Requests |-> Zero]
    /\ annual_el_production = [r \in Requests |-> Zero]
    /\ el_production_timeseries = [r \in Requests |-> Unset]
    /\ monthly_el_production = [r \in Requests |-> Unset]
    /\ el_demand_timeseries = [r \in Requests |-> Unset]
    /\ production_and_consumption = [r \in Requests |-> Unset]
    /\ production_surplus = [r \in Requests |-> Unset]
    /\ cost_savings_GGV = [r \in Requests |-> Zero]
    /\ profit_grid_feed_in = [r \in Requests |-> Zero]
    /\ error = [r \in Requests |-> "none"]

\* one request, any reference file
Init ==
    /\ profile_file \in Files
    /\ \E d \in Demands :
        house = [r \in Requests |-> [annual_el_demand |-> IF r = 1 THEN d ELSE 0]]
    /\ \E ac \in [Hourly(DateRange) -> Powers] :
        ac_output = [r \in Requests |-> IF r = 1 THEN ac ELSE Unset]
    /\ InitLocals({1})

\* two requests in flight at once, a complete reference file
InitConc ==
    /\ profile_file \in ShapedFiles
    /\ house \in [Requests -> [annual_el_demand : Demands]]
    /\ ac_output \in [Requests -> SteadyOutputs]
    /\ InitLocals(Requests)

\* two requests, one after the other, for the same site and roof: the same
\* production series, and any two demands
InitPair ==
    /\ profile_file \in Profiles(NumSlots)
    /\ house \in [Requests -> [annual_el_demand : Demands]]
    /\ \E ac \in [Hourly(DateRange) -> Powers] : ac_output = [r \in Requests |-> ac]
    /\ InitLocals(Requests)

\* one request, a full year of production
InitYear ==
    /\ profile_file \in ShapedFiles
    /\ \E d \in Demands :
        house = [r \in Requests |-> [annual_el_demand |-> IF r = 1 THEN d ELSE 0]]
    /\ \E ac \in YearOutputs :
        ac_output = [r \in Requests |-> IF r = 1 THEN ac ELSE Unset]
    /\ InitLocals({1})

\* ------------------------------------------------ the handler, main.py
\* line 58: pv_system = pv_calc.create_pv_system(house.annual_el_demand)
CreatePvSystem(r) ==
    /\ pc[r] = "create"
    /\ LET ref == NewClassRef(classes)
           obj == create_pv_system(house[r].annual_el_demand)
       IN  /\ classes' = IF ref > Len(classes) THEN Append(classes, obj)
                         ELSE [classes EXCEPT ![ref] = obj]
           /\ pv_system' = [pv_system EXCEPT ![r] = ref]
    /\ pc' = [pc EXCEPT ![r] = "production"]
    /\ UNCHANGED <<inputs, production_locals, el_demand_timeseries, cost_locals, error>>

\* line 59: pv_calc.calculate_hourly_el_production(house, pv_system)
CalculateHourlyElProduction(r) ==
    /\ pc[r] = "production"
    /\ LET out == calculate_hourly_el_production(ac_output[r])
       IN  /\ pdc0' = [pdc0 EXCEPT ![r] = classes[pv_system[r]].size]
           /\ annual_el_production' =
                [annual_el_production EXCEPT ![r] = out.annual_el_production]
           /\ el_production_timeseries' =
                [el_production_timeseries EXCEPT ![r] = out.el_production_timeseries]
           /\ monthly_el_production' =
                [monthly_el_production EXCEPT ![r] = out.monthly_el_production]
    /\ pc' = [pc EXCEPT ![r] = "consumption"]
    /\ UNCHANGED <<inputs, classes, pv_system, el_demand_timeseries, cost_locals, error>>

\* line 60: pv_calc.estimate_hourly_el_consumption(house)
EstimateHourlyElConsumption(r) ==
    /\ pc[r] = "consumption"
    /\ IF IndexFits(Dropna(profile_file))
       THEN /\ el_demand_timeseries' =
                 [el_demand_timeseries EXCEPT
                    ![r] = estimate_hourly_el_consumption(house[r].annual_el_demand, profile_file)]
            /\ pc' = [pc EXCEPT ![r] = "cost"]
            /\ UNCHANGED error
       ELSE /\ error' = [error EXCEPT ![r] = "ValueError"]
            /\ pc' = [pc EXCEPT ![r] = "failed"]
            /\ UNCHANGED el_demand_timeseries
    /\ UNCHANGED <<inputs, classes, pv_system, production_locals, cost_locals>>

\* line 61: pv_calc.calculate_cost_savings(el_production_timeseries, el_demand_timeseries)
CalculateCostSavings(r) ==
    /\ pc[r] = "cost"
    /\ LET out == calculate_cost_savings(el_production_timeseries[r], el_demand_timeseries[r])
       IN  /\ production_and_consumption' =
                [production_and_consumption EXCEPT ![r] = out.production_and_consumption]
           /\ production_surplus' =
                [production_surplus EXCEPT ![r] = out.production_surplus]
           /\ cost_savings_GGV' = [cost_savings_GGV EXCEPT ![r] = out.cost_savings_GGV]
           /\ profit_grid_feed_in' =
                [profit_grid_feed_in EXCEPT ![r] = out.profit_grid_feed_in]
    /\ pc' = [pc EXCEPT ![r] = "payback"]
    /\ UNCHANGED <<inputs, classes, pv_system, production_locals, el_demand_timeseries, error>>

\* line 62: pv_calc.calculate_payback_period(...): the attribute is looked up
\* on the module first, and the module does not define it
CalculatePaybackPeriod(r) ==
    /\ pc[r] = "payback"
    /\ IF "calculate_payback_period" \in PvCalcAttrs
       THEN /\ pc' = [pc EXCEPT ![r] = "co2"]
            /\ UNCHANGED error
       ELSE /\ error' = [error EXCEPT ![r] = "AttributeError"]
            /\ pc' = [pc EXCEPT ![r] = "failed"]
    /\ UNCHANGED <<inputs, classes, pv_system, production_locals, el_demand_timeseries,
                   cost_locals>>

Handler(r) ==
    \/ CreatePvSystem(r)
    \/ CalculateHourlyElProduction(r)
    \/ EstimateHourlyElConsumption(r)
    \/ CalculateCostSavings(r)
    \/ CalculatePaybackPeriod(r)

Next == Handler(1)

NextConc == \E r \in Requests : Handler(r)

NextPair == Handler(1) \/ (pc[1] = "failed" /\ Handler(2))

NextYear == CreatePvSystem(1) \/ CalculateHourlyElProduction(1)

Spec == Init /\ [][Next]_vars

SpecConc == InitConc /\ [][NextConc]_vars

SpecPair == InitPair /\ [][NextPair]_vars

SpecYear == InitYear /\ [][NextYear]_vars

\* ------------------------------------------------------------ properties
\* how far the handler of request r has come
Costed(r) == pc[r] = "payback" \/ (pc[r] = "failed" /\ error[r] = "AttributeError")

Consumed(r) == pc[r] = "cost" \/ Costed(r)

Produced(r) == pc[r] \in {"consumption", "failed"} \/ Consumed(r)

Created(r) == pc[r] = "production" \/ Produced(r)

RatLt(a, b) == RatLe(a, b) /\ a # b

\* the timestamps of request r's frame that have no production row of their own
Unsampled(r) == DateRange \ DOMAIN el_production_timeseries[r]

EarlierSamples(r, s) == {u \in DOMAIN el_production_timeseries[r] : u < s}

LaterSamples(r, s) == {u \in DOMAIN el_production_timeseries[r] : u > s}

\* a quarter of an hour of the power x, in kWh
Quarter(x) == Rat(x[1], 4 * x[2])

RatAbs(x) == <<Abs(x[1]), x[2]>>

\* C1: in every interval of the merged series, surplus is never negative;
\* where production >= demand, self-consumed + surplus = production; where
\* production < demand, self-consumed = production and surplus = 0.
C1_EnergyConservation ==
    \A r \in Requests : Costed(r) =>
        \A s \in DateRange :
            LET row == production_and_consumption[r][s]
                surplus == production_surplus[r][s]
            IN  /\ RatLe(Zero, surplus)
                /\ IF RatLe(row.H00, row.el_production_kWh)
                   THEN RatAdd(row.min_prod_cons, surplus) = row.el_production_kWh
                   ELSE row.min_prod_cons = row.el_production_kWh /\ surplus = Zero

\* a costed frame with an interval of surplus and an interval of shortfall
C1_Witness ==
    /\ Costed(1)
    /\ \E s \in DateRange :
        RatLt(production_and_consumption[1][s].H00,
              production_and_consumption[1][s].el_production_kWh)
    /\ \E s \in DateRange :
        RatLt(production_and_consumption[1][s].el_production_kWh,
              production_and_consumption[1][s].H00)

\* C2: in every interval, 0 <= self-consumed <= min(production, demand), for
\* every production and demand series the function accepts.
C2_SelfConsumptionBounds ==
    \A r \in Requests : Costed(r) =>
        \A s \in DateRange :
            LET row == production_and_consumption[r][s]
            IN  /\ RatLe(Zero, row.min_prod_cons)
                /\ RatLe(row.min_prod_cons, row.el_production_kWh)
                /\ RatLe(row.min_prod_cons, row.H00)

\* C3 as claimed: an interval with no production row of its own takes the
\* value of the NEXT hourly production row.
C3_BackFilled ==
    \A r \in Requests : Costed(r) =>
        \A s \in Unsampled(r) : LaterSamples(r, s) # {} =>
            production_and_consumption[r][s].el_production_kWh =
                Quarter(el_production_timeseries[r][SetMin(LaterSamples(r, s))])

\* C3 amended: an interval with no production row of its own takes the value
\* of the PREVIOUS hourly production row (forward fill).
C3_ForwardFilled ==
    \A r \in Requests : Costed(r) =>
        \A s \in Unsampled(r) : EarlierSamples(r, s) # {} =>
            production_and_consumption[r][s].el_production_kWh =
                Quarter(el_production_timeseries[r][SetMax(EarlierSamples(r, s))])

\* a filled interval between two hourly rows of different value
C3_Witness ==
    /\ Costed(1)
    /\ \E s \in Unsampled(1) :
        /\ EarlierSamples(1, s) # {}
        /\ LaterSamples(1, s) # {}
        /\ el_production_timeseries[1][SetMax(EarlierSamples(1, s))]
             # el_production_timeseries[1][SetMin(LaterSamples(1, s))]

\* C4: a run of the handler whose sizing, production, consumption and cost
\* savings stages succeed goes on to return a response with payback_period:
\* it does not end in an exception.
C4_PaybackReturned ==
    \A r \in Requests : Costed(r) => pc[r] # "failed"

\* C5 as claimed: with annual_el_demand = 0 the demand series is zero in every
\* interval, cost_savings_GGV = 0 and profit_grid_feed_in equals the total
\* production energy times the feed-in tariff.
C5_ExactProfit ==
    \A r \in Requests : (Costed(r) /\ house[r].annual_el_demand = 0) =>
        LET frame == production_and_consumption[r]
            total == SeriesSum([s \in DateRange |-> frame[s].el_production_kWh], DateRange)
        IN  /\ \A s \in DateRange : el_demand_timeseries[r][s] = Zero
            /\ cost_savings_GGV[r] = Zero
            /\ profit_grid_feed_in[r] = RatMul(total, Rat(803, 10000))

\* C5 amended: ... and profit_grid_feed_in equals the total production energy
\* times the feed-in tariff, rounded to 2 decimals.
C5_RoundedProfit ==
    \A r \in Requests : (Costed(r) /\ house[r].annual_el_demand = 0) =>
        LET frame == production_and_consumption[r]
            total == SeriesSum([s \in DateRange |-> frame[s].el_production_kWh], DateRange)
            diff == RatSub(profit_grid_feed_in[r], RatMul(total, Rat(803, 10000)))
        IN  /\ \A s \in DateRange : el_demand_timeseries[r][s] = Zero
            /\ cost_savings_GGV[r] = Zero
            /\ RatLe(RatAbs(diff), Rat(1, 200))

\* zero demand, and a production whose feed-in value is not a whole cent
C5_Witness ==
    /\ Costed(1)
    /\ house[1].annual_el_demand = 0
    /\ RatLt(Zero, profit_grid_feed_in[1])
    /\ profit_grid_feed_in[1]
         # RatMul(SeriesSum([s \in DateRange |->
                               production_and_consumption[1][s].el_production_kWh],
                            DateRange),
                  Rat(803, 10000))

\* C6: for the same production series and reference profile, a request with
\* the smaller or equal annual demand gets the smaller or equal
\* cost_savings_GGV and the greater or equal profit_grid_feed_in.
C6_Monotone ==
    \A r1 \in Requests : \A r2 \in Requests :
        (/\ Costed(r1)
         /\ Costed(r2)
         /\ ac_output[r1] = ac_output[r2]
         /\ house[r1].annual_el_demand <= house[r2].annual_el_demand)
        => /\ RatLe(cost_savings_GGV[r1], cost_savings_GGV[r2])
           /\ RatLe(profit_grid_feed_in[r2], profit_grid_feed_in[r1])

\* two costed runs where the greater demand saves more and feeds in less
C6_Witness ==
    /\ Costed(1)
    /\ Costed(2)
    /\ house[1].annual_el_demand < house[2].annual_el_demand
    /\ RatLt(cost_savings_GGV[1], cost_savings_GGV[2])
    /\ RatLt(profit_grid_feed_in[2], profit_grid_feed_in[1])

\* C7: the demand series returned by estimate_hourly_el_consumption sums to
\* the annual demand T, whatever the total R of the reference profile (exactly
\* in exact arithmetic; the floats differ from it by their rounding).
C7_ScaledSum ==
    \A r \in Requests : Consumed(r) =>
        SeriesSum(el_demand_timeseries[r], DateRange) = Rat(house[r].annual_el_demand, 1)

\* a demand series scaled to T = 2 from a profile whose total is not 2
C7_Witness ==
    /\ Consumed(1)
    /\ house[1].annual_el_demand = 2
    /\ \E s \in DateRange : \E u \in DateRange :
        el_demand_timeseries[1][s] # el_demand_timeseries[1][u]
    /\ SeriesSum(H00(Dropna(profile_file)), DateRange) # Rat(2, 1)

\* C8: for a full year of hourly production there are exactly 12 monthly
\* totals, and their sum differs from annual_el_production by at most the
\* rounding of the 13 numbers (half a hundredth each, so 0.06 at most).
C8_MonthlySumsToAnnual ==
    \A r \in Requests : (Produced(r) /\ DOMAIN ac_output[r] = Hourly(YearStamps)) =>
        /\ DOMAIN monthly_el_production[r] = 1..MonthsPerYear
        /\ RatLe(RatAbs(RatSub(SeriesSum(monthly_el_production[r],
                                         DOMAIN monthly_el_production[r]),
                               annual_el_production[r])),
                 Rat(MonthsPerYear + 1, 200))

\* a full year whose rounded monthly totals do not add up to the rounded annual total
C8_Witness ==
    /\ Produced(1)
    /\ DOMAIN ac_output[1] = Hourly(YearStamps)
    /\ RatLt(Zero, annual_el_production[1])
    /\ SeriesSum(monthly_el_production[1], DOMAIN monthly_el_production[1])
         # annual_el_production[1]

\* C9: two requests in flight see no state of each other: the capacity a
\* request finds on its PV system object, and the capacity it has read from
\* it, is its own annual_el_demand / 1000, and the figures it computes are
\* those of its own inputs.
C9_Isolation ==
    \A r \in Requests :
        /\ Created(r) =>
            classes[pv_system[r]].size = Rat(house[r].annual_el_demand, 1000)
        /\ Produced(r) => pdc0[r] = Rat(house[r].annual_el_demand, 1000)
        /\ Produced(r) => el_production_timeseries[r] = ac_output[r]
        /\ Costed(r) =>
            LET alone == calculate_cost_savings(
                            ac_output[r],
                            estimate_hourly_el_consumption(house[r].annual_el_demand,
                                                           profile_file))
            IN  /\ cost_savings_GGV[r] = alone.cost_savings_GGV
                /\ profit_grid_feed_in[r] = alone.profit_grid_feed_in

\* both requests have made their PV system and read its capacity, for different demands
C9_Witness ==
    /\ Produced(1)
    /\ Produced(2)
    /\ house[1].annual_el_demand # house[2].annual_el_demand
    /\ pv_system[1] # pv_system[2]
    /\ pdc0[1] # pdc0[2]

\* C10: when the reference profile has rows with missing values,
\* estimate_hourly_el_consumption drops them and completes: the request does
\* not fail there.
C10_MissingRowsDropped ==
    \A r \in Requests :
        (\E i \in 1..Len(profile_file) : profile_file[i] = Missing) =>
            error[r] # "ValueError"

====
